---- MODULE Spec2Model ----
(***************************************************************************)
(* Model of processing.py: the three event handlers of the transcription   *)
(* bot (process_mention, process_claim, process_done) and the transcript   *)
(* verifier, acting on the flair of tracking submissions.                  *)
(*                                                                         *)
(* Flair texts are sequences of words, so that the substring test of       *)
(* process_claim / process_done and the equality tests differ as they do   *)
(* in the code.  Every handler call is one action; an external call that   *)
(* raises is an input of the action (the call site that fails).            *)
(***************************************************************************)
EXTENDS Integers, Sequences, FiniteSets, TLC

\* Number of tracking submissions the tracking subreddit can hold.
MaxTor == 2

Users == {"alice", "bob"}

\* External source submissions (the content to be transcribed).
Sources == {"s1", "s2"}

TorIds == 1 .. MaxTor

\* Tracking submissions that exist before the first event is handled.
PreExisting == {1}

\* link_flair_text of a submission without flair (Python None).
None == <<"<None>">>

\* helpers.flair: the flair vocabulary.
flair_unclaimed == <<"Unclaimed">>
flair_summoned_unclaimed == <<"Summoned", "-", "Unclaimed">>
flair_in_progress == <<"In", "Progress">>
flair_completed == <<"Completed">>

\* Flair texts a tracking submission that the bot did not create may carry
\* when first seen (the other texts are reached by the handlers).
Labels ==
  { flair_unclaimed, <<"In", "Progress", "-", "OCR">>, <<"Completed", "!">> }

\* Comment forests a source submission may have: comments are records of
\* an author and whether the comment is top-level.
Comment(a, root) == [author |-> a, is_root |-> root]

Forests ==
  { {}, {Comment("alice", TRUE), Comment("bob", FALSE)} }

VARIABLES
  link_flair_text,  \* flair text of each tracking submission
  url,              \* url of each tracking submission (<<>>: no such post)
  title,            \* title of each tracking submission
  src_comments,     \* comment forest of each source submission
  flair_count,      \* per user: the counter kept by update_user_flair
  claimant,         \* per tracking submission: author of the claim accepted
                    \* by process_claim ("nobody": none was handled yet)
  tally,            \* per tracking submission: how many claim comments
                    \* got the claim-success reply in a call that returned
                    \* normally, and how many counter increments its done
                    \* comments earned
  last              \* the handler call just made and what it did

vars ==
  <<link_flair_text, url, title, src_comments, flair_count, claimant, tally, last>>

----------------------------------------------------------------------------
\* Python's `needle in text` on words: needle is a contiguous part of text.
Contains(needle, text) ==
  \E i \in 1 .. (Len(text) - Len(needle) + 1) :
    SubSeq(text, i, i + Len(needle) - 1) = needle

\* clean_id: a fullname <<kind, id>> without its kind prefix.
clean_id(fullname) == fullname[2]

\* permalink of a submission / of a comment of that submission.
submission_permalink(s) == <<"comments", s>>
comment_permalink(s) == <<"comments", s, "_", "c">>

\* reddit_url.format(permalink)
reddit_url(permalink) == <<"reddit.com">> \o permalink

\* Submission.id_from_url: the submission id of a submission or comment url.
id_from_url(u) == u[3]

\* Mutant: the flattened forest (comments.list()), nested replies included.
all_comments(s) == src_comments[s]

\* linked_resource.comments: iterating a comment forest yields its
\* top-level comments only.
top_level_comments(s) == {c \in src_comments[s] : c.is_root}

\* The tracking submissions that exist.
tor_posts == {t \in TorIds : url[t] # <<>>}

----------------------------------------------------------------------------
(* A handler run is folded over an execution record: the replies posted so *)
(* far in this call, the flair texts, the user counters, and the exception *)
(* raised (if any).  Once an exception is raised, later statements of the  *)
(* handler have no effect.                                                 *)

\* flair text read before the parent submission was resolved
Unresolved == <<"<unresolved>">>

Start ==
  [ replies |-> <<>>, flair |-> link_flair_text, count |-> flair_count,
    url |-> url, title |-> title, raised |-> "none", caught |-> FALSE,
    failed |-> <<>>, seen |-> Unresolved, verified |-> "not_called" ]

Raise(e, exc) == [e EXCEPT !.raised = exc]

\* An external call raises: `failed` lists the calls that raised, in order.
Fail(e, call) == [e EXCEPT !.raised = "Exception", !.failed = Append(@, call)]

\* The name of the call x.reply for the object held by variable `to`.
reply_call(to) ==
  IF to = "post" THEN "post.reply"
  ELSE IF to = "result" THEN "result.reply"
  ELSE "mention.reply"

\* x.reply(_(body)): post a reply to the object held by variable `to`.
reply(e, to, body, fails) ==
  IF e.raised # "none" THEN e
  ELSE IF fails THEN Fail(e, reply_call(to))
  ELSE [e EXCEPT !.replies = Append(@, [to |-> to, body |-> body])]

\* helpers.flair_post(submission, text): set the submission's flair text.
flair_post(e, t, text, fails) ==
  IF e.raised # "none" THEN e
  ELSE IF fails THEN Fail(e, "flair_post")
  ELSE [e EXCEPT !.flair[t] = text]

\* helpers.update_user_flair(post, tor, r): bump the counter of post.author.
update_user_flair(e, post, fails) ==
  IF e.raised # "none" THEN e
  ELSE IF fails THEN Fail(e, "update_user_flair")
  ELSE [e EXCEPT !.count[post.author] = @ + 1]

\* helpers.get_parent_post_id(post, r): the tracking submission of a comment.
get_parent_post_id(post) == post.link_id

----------------------------------------------------------------------------
\* The loop of verified_posted_transcript: first match returns True,
\* exhausting the comments returns False.
RECURSIVE scan(_, _)
scan(cs, author) ==
  IF cs = {} THEN FALSE
  ELSE LET top_level_comment == CHOOSE c \in cs : TRUE
       IN IF author = top_level_comment.author THEN TRUE
          ELSE scan(cs \ {top_level_comment}, author)

\* The submission the verifier fetches: the one the tracking post links to.
linked_resource(post) ==
  LET top_parent == get_parent_post_id(post)
  IN id_from_url(url[top_parent])

verified_posted_transcript(post) ==
  scan(top_level_comments(linked_resource(post)), post.author)

----------------------------------------------------------------------------
\* Mutant: the unclaimed test is an equality, as the other two are.
claim_branch_exact(text) ==
  IF text = <<"Unclaimed">> THEN "accept"
  ELSE IF text = flair_in_progress THEN "already_claimed"
  ELSE IF text = flair_completed THEN "claim_already_complete"
  ELSE "unhandled"

\* Mutant: the in-progress test is missing, so a claimed post is claimable.
claim_branch_reclaim(text) ==
  IF Contains(<<"Unclaimed">>, text) \/ text = flair_in_progress THEN "accept"
  ELSE IF text = flair_completed THEN "claim_already_complete"
  ELSE "unhandled"

\* Mutant: everything that is not in progress is claimable.
claim_branch_not_in_progress(text) ==
  IF text = flair_in_progress THEN "already_claimed" ELSE "accept"

\* The decision tree of process_claim on the flair text it read.
claim_branch(text) ==
  IF Contains(<<"Unclaimed">>, text) THEN "accept"
  ELSE IF text = flair_in_progress THEN "already_claimed"
  ELSE IF text = flair_completed THEN "claim_already_complete"
  ELSE "unhandled"

\* Mutant: the flair text written names the state with a suffix.
claim_accept_tagged(e, top_parent, fail) ==
  flair_post(reply(e, "post", "claim_success", fail = "reply"),
             top_parent, flair_in_progress \o <<"-", "Claimed">>, fail = "flair")

\* Mutant: the flair text is written before the reply is posted.
claim_accept_flair_first(e, top_parent, fail) ==
  reply(flair_post(e, top_parent, flair_in_progress, fail = "flair"),
        "post", "claim_success", fail = "reply")

\* Mutant: the flair_post call of the accepted claim is missing.
claim_accept_no_flair(e, top_parent, fail) ==
  reply(e, "post", "claim_success", fail = "reply")

\* Lines 95-96: the accepted claim.
claim_accept(e, top_parent, fail) ==
  flair_post(reply(e, "post", "claim_success", fail = "reply"),
             top_parent, flair_in_progress, fail = "flair")

\* Lines 104 and 106: the rejected claim.
claim_reject(e, body, fail) == reply(e, "post", body, fail = "reply")

ClaimFails == {"none", "resolve", "reply", "flair"}

process_claim_run(post, fail) ==
  IF fail = "resolve" THEN Fail(Start, "get_parent_post_id")
  ELSE
    LET top_parent == get_parent_post_id(post)
        text == link_flair_text[top_parent]
        e == [Start EXCEPT !.seen = text]
    IN IF text = None THEN Raise(e, "TypeError")
       ELSE LET branch == claim_branch(text)
            IN IF branch = "accept" THEN claim_accept(e, top_parent, fail)
               ELSE IF branch = "unhandled" THEN e
               ELSE claim_reject(e, branch, fail)

----------------------------------------------------------------------------
\* The increments a run made to the user counters.
increments(e) ==
  IF e.count = flair_count THEN 0
  ELSE LET u == CHOOSE u \in Users : e.count[u] # flair_count[u]
       IN e.count[u] - flair_count[u]

\* What a handler call leaves behind.
Commit(op, post, e) ==
  /\ tally' =
       IF post.link_id \notin TorIds THEN tally
       ELSE [tally EXCEPT
              ![post.link_id].claim_success =
                 IF /\ [to |-> "post", body |-> "claim_success"] \in
                         {e.replies[i] : i \in 1 .. Len(e.replies)}
                    /\ e.raised = "none"
                 THEN @ + 1 ELSE @,
              ![post.link_id].increments = @ + increments(e)]
  /\ link_flair_text' = e.flair
  /\ flair_count' = e.count
  /\ url' = e.url
  /\ title' = e.title
  /\ last' = [ op |-> op, author |-> post.author, link_id |-> post.link_id,
               seen |-> e.seen, verified |-> e.verified, raised |-> e.raised,
               caught |-> e.caught, failed |-> e.failed, replies |-> e.replies,
               pre_flair |-> link_flair_text, pre_count |-> flair_count ]

process_claim_on(Fails) ==
  \E a \in Users, t \in tor_posts, fail \in Fails :
    LET post == [author |-> a, link_id |-> t]
        e == process_claim_run(post, fail)
    IN /\ Commit("claim", post, e)
       /\ claimant' = IF e.raised = "none" /\ e.flair # link_flair_text
                      THEN [claimant EXCEPT ![t] = a] ELSE claimant
       /\ UNCHANGED src_comments

process_claim == process_claim_on(ClaimFails)

----------------------------------------------------------------------------
\* Mutant: the unclaimed test is an equality.
done_branch_exact(text) ==
  IF text = flair_unclaimed THEN "done_still_unclaimed"
  ELSE IF text = flair_in_progress THEN "verify"
  ELSE "unhandled"

\* Mutant: a completed post is verified and completed again.
done_branch_recomplete(text) ==
  IF Contains(flair_unclaimed, text) THEN "done_still_unclaimed"
  ELSE IF text \in {flair_in_progress, flair_completed} THEN "verify"
  ELSE "unhandled"

\* Mutant: the still-unclaimed branch is missing and an unclaimed post is
\* verified like a claimed one.
done_branch_skip(text) ==
  IF Contains(flair_unclaimed, text) \/ text = flair_in_progress THEN "verify"
  ELSE "unhandled"

\* The decision tree of process_done on the flair text it read.
done_branch(text) ==
  IF Contains(flair_unclaimed, text) THEN "done_still_unclaimed"
  ELSE IF text = flair_in_progress THEN "verify"
  ELSE "unhandled"

\* Mutant: the call of update_user_flair is missing.
done_verified_no_count(e, post, top_parent, fail) ==
  flair_post(reply(e, "post", "done_completed_transcript", fail = "reply"),
             top_parent, flair_completed, fail = "flair")

\* Mutant: the counter is bumped before the flair text is written.
done_verified_count_first(e, post, top_parent, fail) ==
  flair_post(
    update_user_flair(
      reply(e, "post", "done_completed_transcript", fail = "reply"),
      post, fail = "user_flair"),
    top_parent, flair_completed, fail = "flair")

\* Lines 152-154: the verifier said True.
done_verified(e, post, top_parent, fail) ==
  update_user_flair(
    flair_post(reply(e, "post", "done_completed_transcript", fail = "reply"),
               top_parent, flair_completed, fail = "flair"),
    post, fail = "user_flair")

\* Mutant: the reply of the else branch is missing.
done_unverified_silent(e, fail) == e

\* Line 167: the verifier said False.
done_unverified(e, fail) ==
  reply(e, "post", "done_cannot_find_transcript", fail = "reply")

\* Mutant: `if verified_posted_transcript:` tests the function object,
\* which is always true, and never calls the verifier.
done_verify_uncalled(e, post, top_parent, fail) ==
  done_verified(e, post, top_parent, fail)

\* Mutant: an exception of the verifier is swallowed and read as False.
done_verify_swallow(e, post, top_parent, fail) ==
  IF fail = "verify"
  THEN done_unverified(
         [Fail(e, "verified_posted_transcript") EXCEPT !.raised = "none",
                                                       !.verified = "false"],
         fail)
  ELSE IF verified_posted_transcript(post)
       THEN done_verified([e EXCEPT !.verified = "true"], post, top_parent, fail)
       ELSE done_unverified([e EXCEPT !.verified = "false"], fail)

\* Line 149: the call of the verifier, which may raise.
done_verify(e, post, top_parent, fail) ==
  IF fail = "verify" THEN Fail(e, "verified_posted_transcript")
  ELSE IF verified_posted_transcript(post)
       THEN done_verified([e EXCEPT !.verified = "true"], post, top_parent, fail)
       ELSE done_unverified([e EXCEPT !.verified = "false"], fail)

DoneFails == {"none", "resolve", "reply", "verify", "flair", "user_flair"}

process_done_run(post, fail) ==
  IF fail = "resolve" THEN Fail(Start, "get_parent_post_id")
  ELSE
    LET top_parent == get_parent_post_id(post)
        text == link_flair_text[top_parent]
        e == [Start EXCEPT !.seen = text]
    IN IF text = None THEN Raise(e, "TypeError")
       ELSE LET branch == done_branch(text)
            IN IF branch = "done_still_unclaimed"
               THEN reply(e, "post", "done_still_unclaimed", fail = "reply")
               ELSE IF branch = "verify" THEN done_verify(e, post, top_parent, fail)
               ELSE e

process_done_on(Fails) ==
  \E a \in Users, t \in tor_posts, fail \in Fails :
    LET post == [author |-> a, link_id |-> t]
    IN /\ Commit("done", post, process_done_run(post, fail))
       /\ UNCHANGED <<src_comments, claimant>>

process_done == process_done_on(DoneFails)

----------------------------------------------------------------------------
\* The comments a mention may reply to, and the submission each is on.
comment_submission == [c \in {"c1"} |-> "s1"]

\* parent_id of a mention: a submission fullname or a comment fullname.
ParentIds ==
  {<<"t3", "s2">>} \cup {<<"t1", c>> : c \in DOMAIN comment_submission}

src_title(s) == <<"Example", s>>

\* Lines 32-44: the mentioned content, its permalink and its title.
mention_parent(mention) ==
  IF ~ mention.is_root
  THEN [ class |-> "Comment",
         permalink |-> comment_permalink(comment_submission[clean_id(mention.parent_id)]),
         title |-> <<"Unknown", "Content">> ]
  ELSE [ class |-> "Submission",
         permalink |-> submission_permalink(clean_id(mention.parent_id)),
         title |-> <<"\"">> \o src_title(clean_id(mention.parent_id)) \o <<"\"">> ]

\* str.lower on the class names
lower(name) == IF name = "Comment" THEN "comment" ELSE "submission"

\* summoned_submit_title.format(sub=..., commentorpost=..., title=...)
summoned_submit_title(commentorpost, t) == <<"sub", commentorpost>> \o t

\* tor.submit(title=..., url=...): a new tracking submission, without flair.
submit(e, result, t, u, fails) ==
  IF fails THEN Fail(e, "tor.submit")
  ELSE [e EXCEPT !.url[result] = u, !.title[result] = t, !.flair[result] = None]

\* Mutant: the caller is told of the success before anything is posted.
summon_success_first(e, parent, result, fail) ==
  flair_post(
    reply(
      submit(
        reply(e, "mention", "summoned", fail \in {"success_reply", "mention_reply"}),
        result,
        summoned_submit_title(lower(parent.class), parent.title),
        reddit_url(parent.permalink), fail = "submit"),
      "result", "rules_comment_unknown_format", fail = "rules_reply"),
    result, flair_summoned_unclaimed, fail = "flair")

\* Lines 52-68: the body of the try statement.
summon(e, parent, result, fail) ==
  reply(
    flair_post(
      reply(
        submit(e, result,
               summoned_submit_title(lower(parent.class), parent.title),
               reddit_url(parent.permalink), fail = "submit"),
        "result", "rules_comment_unknown_format", fail = "rules_reply"),
      result, flair_summoned_unclaimed, fail = "flair"),
    "mention", "summoned", fail \in {"success_reply", "mention_reply"})

\* Mutant: the except clause logs the error and raises it again.
summon_failed_reraise(e, fail) == [e EXCEPT !.caught = TRUE]

\* Lines 70-79: the except clause.
summon_failed(e, fail) ==
  reply([e EXCEPT !.raised = "none", !.caught = TRUE],
        "mention", "something_went_wrong", fail = "mention_reply")

MentionFails ==
  { "none", "resolve", "submit", "rules_reply", "flair", "success_reply",
    "mention_reply" }

process_mention_run(mention, result, fail) ==
  IF fail = "resolve" THEN Fail(Start, "parent")
  ELSE LET parent == mention_parent(mention)
           e == summon(Start, parent, result, fail)
       IN IF e.raised = "none" THEN e ELSE summon_failed(e, fail)

process_mention_on(Fails) ==
  \E a \in Users, pid \in ParentIds, fail \in Fails :
    /\ TorIds \ tor_posts # {}
    /\ LET result == CHOOSE t \in TorIds \ tor_posts :
                       \A o \in TorIds \ tor_posts : t <= o
           mention == [author |-> a, is_root |-> pid[1] = "t3", parent_id |-> pid]
           e == process_mention_run(mention, result, fail)
       IN /\ Commit("mention", [author |-> a, link_id |-> result], e)
          /\ UNCHANGED <<src_comments, claimant>>

process_mention == process_mention_on(MentionFails)

----------------------------------------------------------------------------
Init ==
  /\ link_flair_text \in [TorIds -> Labels \cup {None}]
  /\ \A t \in TorIds : link_flair_text[t] = None <=> t \notin PreExisting
  /\ url = [t \in TorIds |-> IF t \in PreExisting
                              THEN reddit_url(submission_permalink("s1"))
                              ELSE <<>>]
  /\ title = [t \in TorIds |-> <<>>]
  /\ src_comments \in [Sources -> Forests]
  /\ flair_count = [u \in Users |-> 0]
  /\ claimant = [t \in TorIds |-> "nobody"]
  /\ tally = [t \in TorIds |-> [claim_success |-> 0, increments |-> 0]]
  /\ last = [ op |-> "none", author |-> "nobody", link_id |-> 0,
              seen |-> Unresolved, verified |-> "not_called", raised |-> "none",
              caught |-> FALSE, failed |-> <<>>, replies |-> <<>>,
              pre_flair |-> link_flair_text, pre_count |-> flair_count ]

Next == process_claim \/ process_done \/ process_mention

Spec == Init /\ [][Next]_vars

\* The handlers when every flair_post call succeeds.
NextLabelsSet ==
  \/ process_claim_on(ClaimFails \ {"flair"})
  \/ process_done_on(DoneFails \ {"flair"})
  \/ process_mention_on(MentionFails \ {"flair"})

SpecLabelsSet == Init /\ [][NextLabelsSet]_vars

----------------------------------------------------------------------------
(* Properties.  `last` holds the handler call just made: the flair text it *)
(* read (seen), what the verifier said, the exception that left the        *)
(* handler (raised), the replies it posted, and the flair texts and        *)
(* counters as they were before the call (pre_flair, pre_count).           *)

Reply(to, body) == [to |-> to, body |-> body]

\* The source submission a tracking submission links to.
LinkedSource(t) == id_from_url(url[t])

\* u has a top-level comment on source submission s.
HasTopLevelComment(u, s) ==
  \E c \in src_comments[s] : c.is_root /\ c.author = u

\* C1: whenever process_claim returns normally from a claim on a tracking
\* submission whose flair text contains the unclaimed marker, it has posted
\* the claim-success reply (and nothing else) to the claim comment and the
\* submission's flair text is exactly in-progress.
C1_ClaimAccepted ==
  ( /\ last.op = "claim"
    /\ last.raised = "none"
    /\ Contains(flair_unclaimed, last.seen) )
  => /\ last.replies = <<Reply("post", "claim_success")>>
     /\ link_flair_text[last.link_id] = flair_in_progress

C1_Witness ==
  /\ last.op = "claim"
  /\ last.raised = "none"
  /\ last.seen = flair_summoned_unclaimed
  /\ link_flair_text[last.link_id] = flair_in_progress

\* C2: whenever process_claim returns normally from a claim on a tracking
\* submission whose flair text is exactly in-progress (exactly completed),
\* it has posted the already-claimed (already-complete) reply and no flair
\* text has changed.
C2_ClaimRejected ==
  ( /\ last.op = "claim"
    /\ last.raised = "none"
    /\ last.seen \in {flair_in_progress, flair_completed} )
  => /\ last.replies =
          <<Reply("post", IF last.seen = flair_in_progress
                          THEN "already_claimed"
                          ELSE "claim_already_complete")>>
     /\ link_flair_text = last.pre_flair

C2_Witness ==
  /\ last.op = "claim"
  /\ last.seen = flair_in_progress
  /\ last.replies = <<Reply("post", "already_claimed")>>
  /\ link_flair_text[last.link_id] = flair_in_progress

\* C3: a flair text goes from in-progress to completed only in a
\* process_done call on that submission in which the verifier returned
\* true, and then the author of the done comment has a top-level comment on
\* the source submission the tracking submission links to.
C3_CompletionVerified ==
  \A t \in TorIds :
    (last.pre_flair[t] = flair_in_progress /\ link_flair_text[t] = flair_completed)
    => /\ last.op = "done"
       /\ last.link_id = t
       /\ last.verified = "true"
       /\ HasTopLevelComment(last.author, LinkedSource(t))

C3_Witness ==
  \E t \in TorIds :
    /\ last.pre_flair[t] = flair_in_progress
    /\ link_flair_text[t] = flair_completed
    /\ last.op = "done"

\* C4: whenever process_done returns normally from a done comment on a
\* submission whose flair text is exactly in-progress and the verifier
\* returned true, it has posted the completion reply, the flair text is
\* completed, and the counter of the done comment's author is one more than
\* before while every other counter is as before.
C4_DoneVerified ==
  ( /\ last.op = "done"
    /\ last.raised = "none"
    /\ last.seen = flair_in_progress
    /\ last.verified = "true" )
  => /\ last.replies = <<Reply("post", "done_completed_transcript")>>
     /\ link_flair_text[last.link_id] = flair_completed
     /\ flair_count = [last.pre_count EXCEPT ![last.author] = @ + 1]

C4_Witness ==
  /\ last.op = "done"
  /\ last.raised = "none"
  /\ last.verified = "true"
  /\ last.author = "alice"
  /\ flair_count["alice"] = last.pre_count["alice"] + 1

\* C5: whenever process_done returns normally from a done comment on a
\* submission whose flair text is exactly in-progress and the verifier
\* returned false, it has posted the cannot-find-transcript reply, and no
\* flair text and no counter has changed.
C5_DoneUnverified ==
  ( /\ last.op = "done"
    /\ last.raised = "none"
    /\ last.seen = flair_in_progress
    /\ last.verified = "false" )
  => /\ last.replies = <<Reply("post", "done_cannot_find_transcript")>>
     /\ link_flair_text = last.pre_flair
     /\ flair_count = last.pre_count

C5_Witness ==
  /\ last.op = "done"
  /\ last.raised = "none"
  /\ last.verified = "false"
  /\ last.replies = <<Reply("post", "done_cannot_find_transcript")>>
  /\ link_flair_text[last.link_id] = flair_in_progress

\* C6: whenever process_done returns normally from a done comment on a
\* submission whose flair text contains the unclaimed marker, it has posted
\* the still-unclaimed reply, has not called the verifier, and no flair
\* text and no counter has changed.
C6_DoneStillUnclaimed ==
  ( /\ last.op = "done"
    /\ last.raised = "none"
    /\ Contains(flair_unclaimed, last.seen) )
  => /\ last.replies = <<Reply("post", "done_still_unclaimed")>>
     /\ last.verified = "not_called"
     /\ link_flair_text = last.pre_flair
     /\ flair_count = last.pre_count

C6_Witness ==
  /\ last.op = "done"
  /\ last.raised = "none"
  /\ last.seen = flair_summoned_unclaimed
  /\ last.replies = <<Reply("post", "done_still_unclaimed")>>

\* C7: every process_done call on a submission whose flair text is already
\* completed posts no reply, raises nothing, does not call the verifier and
\* changes no flair text and no counter.
C7_DoneIdempotent ==
  (last.op = "done" /\ last.seen = flair_completed)
  => /\ last.replies = <<>>
     /\ last.raised = "none"
     /\ last.verified = "not_called"
     /\ link_flair_text = last.pre_flair
     /\ flair_count = last.pre_count

\* a done comment on a submission that an earlier done comment completed
C7_Witness ==
  /\ last.op = "done"
  /\ last.seen = flair_completed
  /\ flair_count[last.author] = 1

\* C8: no handler call changes a flair text that is completed, and a call
\* that reads a completed flair text changes no flair text and no counter
\* and posts nothing but process_claim's already-complete reply.
C8_CompletedTerminal ==
  /\ \A t \in TorIds :
       last.pre_flair[t] = flair_completed => link_flair_text[t] = flair_completed
  /\ last.seen = flair_completed
     => /\ link_flair_text = last.pre_flair
        /\ flair_count = last.pre_count
        /\ \/ last.replies = <<>>
           \/ /\ last.op = "claim"
              /\ last.replies = <<Reply("post", "claim_already_complete")>>

C8_Witness ==
  /\ last.op = "claim"
  /\ last.seen = flair_completed
  /\ last.replies = <<Reply("post", "claim_already_complete")>>
  /\ link_flair_text[last.link_id] = flair_completed

\* C9: the verifier returns true exactly when some top-level comment of
\* the linked source submission has the author of the done comment; nested
\* replies there, and the done comment itself (a comment on the tracking
\* submission), do not count, and no top-level comments means false.
C9_VerifierCorrect ==
  last.verified # "not_called"
  => (last.verified = "true"
      <=> HasTopLevelComment(last.author, LinkedSource(last.link_id)))

\* the verifier said false to an author who has only a nested reply on the
\* linked source submission
C9_Witness ==
  /\ last.verified = "false"
  /\ Comment(last.author, FALSE) \in src_comments[LinkedSource(last.link_id)]

\* C10: a counter incremented by a process_done call on a submission
\* whose claim process_claim accepted belongs to that claim's author.
C10_ReputationToClaimant ==
  \A u \in Users :
    ( /\ last.op = "done"
      /\ claimant[last.link_id] \in Users
      /\ flair_count[u] > last.pre_count[u] )
    => u = claimant[last.link_id]

\* C11: a process_claim or process_done call on a submission whose flair
\* text is not recognised (it does not contain the unclaimed marker and is
\* neither exactly in-progress nor exactly completed; no flair at all is
\* such a text) returns normally, posts no reply and changes no flair text.
C11_UnrecognisedIgnored ==
  ( /\ last.op \in {"claim", "done"}
    /\ last.seen # Unresolved
    /\ ~ Contains(flair_unclaimed, last.seen)
    /\ last.seen \notin {flair_in_progress, flair_completed} )
  => /\ last.raised = "none"
     /\ last.replies = <<>>
     /\ link_flair_text = last.pre_flair

\* The calls of the try statement of process_mention.
SummonSteps == {"tor.submit", "result.reply", "flair_post", "mention.reply"}

\* C12: when exactly one call of process_mention raises and it is one of
\* the four summon steps, the exception is caught, the handler returns
\* normally, and its last reply is the something-went-wrong reply to the
\* mention; the success reply is not posted.
C12_SummonFailureAnswered ==
  ( /\ last.op = "mention"
    /\ Len(last.failed) = 1
    /\ last.failed[1] \in SummonSteps )
  => /\ last.caught
     /\ last.raised = "none"
     /\ last.replies # <<>>
     /\ last.replies[Len(last.replies)] = Reply("mention", "something_went_wrong")
     /\ \A i \in 1 .. Len(last.replies) : last.replies[i] # Reply("mention", "summoned")

\* the rules reply raised: the tracking submission exists, without flair
C12_Witness ==
  /\ last.op = "mention"
  /\ last.failed = <<"result.reply">>
  /\ last.replies = <<Reply("mention", "something_went_wrong")>>
  /\ url[last.link_id] # <<>>
  /\ link_flair_text[last.link_id] = None

\* C13: every process_mention call in which no reply to the mention raised
\* has posted a reply to the mention, whichever other call raised.
C13_MentionAlwaysAnswered ==
  ( /\ last.op = "mention"
    /\ \A i \in 1 .. Len(last.failed) : last.failed[i] # "mention.reply" )
  => \E i \in 1 .. Len(last.replies) : last.replies[i].to = "mention"

\* C14: the success reply to the mention is posted only after the tracking
\* submission was created, got the rules reply and got the initial
\* summoned-unclaimed flair text, in this order.
C14_SummonOrder ==
  ( /\ last.op = "mention"
    /\ \E i \in 1 .. Len(last.replies) : last.replies[i] = Reply("mention", "summoned") )
  => /\ url[last.link_id] # <<>>
     /\ last.pre_flair[last.link_id] = None
     /\ link_flair_text[last.link_id] = flair_summoned_unclaimed
     /\ last.replies = << Reply("result", "rules_comment_unknown_format"),
                          Reply("mention", "summoned") >>
     /\ last.failed = <<>>

C14_Witness ==
  /\ last.op = "mention"
  /\ last.replies = << Reply("result", "rules_comment_unknown_format"),
                       Reply("mention", "summoned") >>
  /\ link_flair_text[last.link_id] = flair_summoned_unclaimed

\* C15: when the parent resolver raises at the start of process_claim or
\* process_done, or the verifier raises, the exception leaves the handler,
\* which has posted no reply and changed no flair text and no counter.
C15_ResolverErrorPropagates ==
  ( /\ last.op \in {"claim", "done"}
    /\ last.failed # <<>>
    /\ last.failed[1] \in {"get_parent_post_id", "verified_posted_transcript"} )
  => /\ last.raised = "Exception"
     /\ ~ last.caught
     /\ last.replies = <<>>
     /\ link_flair_text = last.pre_flair
     /\ flair_count = last.pre_count

\* the verifier raised in a process_done call on an in-progress submission
C15_Witness ==
  /\ last.op = "done"
  /\ last.failed = <<"verified_posted_transcript">>
  /\ last.seen = flair_in_progress
  /\ last.raised = "Exception"

\* The flair texts of the workflow: initial unclaimed, in-progress, completed.
Vocabulary == {flair_summoned_unclaimed, flair_in_progress, flair_completed}

\* C16: every flair text a handler call writes is one of the three texts of
\* the vocabulary, and every tracking submission created by process_mention
\* has no flair text or one of the three, in every reachable state.
C16_LabelVocabulary ==
  /\ \A t \in TorIds :
       link_flair_text[t] # last.pre_flair[t] => link_flair_text[t] \in Vocabulary
  /\ \A t \in TorIds \ PreExisting :
       link_flair_text[t] \in Vocabulary \cup {None}

\* a claim was accepted on a submission that process_mention created
C16_Witness ==
  /\ last.op = "claim"
  /\ last.link_id \notin PreExisting
  /\ last.pre_flair[last.link_id] = flair_summoned_unclaimed
  /\ link_flair_text[last.link_id] = flair_in_progress

\* C17: a handler call changes a flair text only by one forward step: from
\* no flair to the initial unclaimed text, from a text containing the
\* unclaimed marker to in-progress, or from in-progress to completed.
C17_LabelForward ==
  \A t \in TorIds :
    \/ link_flair_text[t] = last.pre_flair[t]
    \/ /\ last.pre_flair[t] = None
       /\ link_flair_text[t] = flair_summoned_unclaimed
    \/ /\ Contains(flair_unclaimed, last.pre_flair[t])
       /\ link_flair_text[t] = flair_in_progress
    \/ /\ last.pre_flair[t] = flair_in_progress
       /\ link_flair_text[t] = flair_completed

\* a submission that process_mention created reaches completed
C17_Witness ==
  \E t \in TorIds \ PreExisting :
    /\ last.pre_flair[t] = flair_in_progress
    /\ link_flair_text[t] = flair_completed

\* C20: in process_claim and process_done, when the reply raises, nothing
\* was posted and no flair text and no counter has changed; when flair_post
\* raises, the success reply was posted and no flair text and no counter
\* has changed; when update_user_flair raises in process_done, the reply
\* was posted, the flair text is completed and no counter has changed.
C20_ReplyThenLabelThenCount ==
  last.op \in {"claim", "done"}
  => /\ last.failed = <<"post.reply">>
        => /\ last.replies = <<>>
           /\ link_flair_text = last.pre_flair
           /\ flair_count = last.pre_count
     /\ last.failed = <<"flair_post">>
        => /\ last.replies =
                <<Reply("post", IF last.op = "claim" THEN "claim_success"
                                ELSE "done_completed_transcript")>>
           /\ link_flair_text = last.pre_flair
           /\ flair_count = last.pre_count
     /\ last.failed = <<"update_user_flair">>
        => /\ last.op = "done"
           /\ last.replies = <<Reply("post", "done_completed_transcript")>>
           /\ link_flair_text[last.link_id] = flair_completed
           /\ flair_count = last.pre_count

\* setting the flair text to completed raised after the reply was posted
C20_Witness ==
  /\ last.op = "done"
  /\ last.failed = <<"flair_post">>
  /\ last.replies = <<Reply("post", "done_completed_transcript")>>
  /\ link_flair_text[last.link_id] = flair_in_progress

\* C18: when every flair_post call succeeds, every claim-success reply is
\* posted in a call that returns normally, at most one claim comment per
\* tracking submission gets it, and every claim handled after it that
\* returns normally gets the already-claimed or the already-complete reply.
C18_OneClaimSuccess ==
  /\ \A t \in TorIds : tally[t].claim_success <= 1
  /\ last.op = "claim"
     => /\ (\E i \in 1 .. Len(last.replies) :
              last.replies[i] = Reply("post", "claim_success"))
           => last.raised = "none"
        /\ ( /\ last.raised = "none"
             /\ tally[last.link_id].claim_success >= 1
             /\ last.replies # <<Reply("post", "claim_success")>> )
           => last.replies \in { <<Reply("post", "already_claimed")>>,
                                 <<Reply("post", "claim_already_complete")>> }

\* a second user's claim on a submission already claimed is turned down
C18_Witness ==
  /\ last.op = "claim"
  /\ tally[last.link_id].claim_success = 1
  /\ claimant[last.link_id] \in Users \ {last.author}
  /\ last.replies = <<Reply("post", "already_claimed")>>

\* C19: the done comments of one tracking submission earn at most one
\* counter increment, and a call that changes a counter is a process_done
\* call that took its submission from in-progress to completed and added
\* one to the counter of the done comment's author.
C19_OneIncrement ==
  /\ \A t \in TorIds : tally[t].increments <= 1
  /\ flair_count # last.pre_count
     => /\ last.op = "done"
        /\ last.pre_flair[last.link_id] = flair_in_progress
        /\ link_flair_text[last.link_id] = flair_completed
        /\ flair_count = [last.pre_count EXCEPT ![last.author] = @ + 1]

\* a done comment on a submission that was claimed and completed before
C19_Witness ==
  /\ last.op = "done"
  /\ last.pre_flair[last.link_id] = flair_completed
  /\ tally[last.link_id].increments = 1
  /\ tally[last.link_id].claim_success = 1

====
